---- MODULE Spec2Model ----
(***************************************************************************)
(* Search agents of the AI notebooks: OracularAgent, BFSAgent.bfs and      *)
(* DFSAgent.dfs of the "AI Agents" notebook and astar of lab2, run over    *)
(* Problem objects.                                                        *)
(*                                                                         *)
(* A behaviour is one notebook session: a strategy (alg) is run on each    *)
(* problem of the sequence probs in turn, every run starting from freshly  *)
(* constructed search state, and the outcome of every run is appended to   *)
(* results.  A run of an agent is followed by the notebook's loop that     *)
(* executes the agent's plan.  A session of alg "walk" applies available   *)
(* actions to a problem's states one after the other, as the notebook's    *)
(* cells that call do_action by hand do.  A session of alg "call" calls    *)
(* do_action once, with a state of the problem and any action name.  A     *)
(* session of alg "roam" applies available actions without end and keeps   *)
(* no count of them.                                                       *)
(***************************************************************************)
EXTENDS Integers, Sequences, FiniteSets, TLC

VARIABLES
    alg,            \* "oracle", "bfs", "dfs", "astar", "walk", "call" or
                    \* "roam"
    probs,          \* the problems the session runs the strategy on, in order
    run,            \* index in probs of the current run
    pc,             \* "start", "bfs", "dfs", "astar", "agent", "drive",
                    \* "reached", "walk", "call", "roam" or "done"
    results,        \* outcome of each finished run
    heap,           \* the set objects allocated by the current run
    taken_states,   \* local variable taken_states: a reference into heap
    visited,        \* bfs: the list visited of [route, state] entries
    idx,            \* bfs: idx
    stack,          \* dfs: the activation records of the recursion
    ret,            \* dfs: value handed from a returning call to its caller
    queue,          \* astar: the entries held by the PriorityQueue
    agent,          \* the agent object: its field plan (isNone: plan is None)
    driver,         \* the notebook cell that applies actions: its variables
                    \* state and action, the state it set out from (start),
                    \* the number of calls of do_action it has made and how
                    \* its loop has ended
    generated,      \* astar: every state the run has produced so far (history)
    entered         \* dfs: the states dfs has been called with, in order;
                    \* astar: the states put on the queue, in order (history)

vars == <<alg, probs, run, pc, results, heap, taken_states, visited, idx,
          stack, ret, queue, agent, driver, generated, entered>>

-----------------------------------------------------------------------------
(* Bounds of the explored inputs *)

NumStates == 3      \* states of an enumerated graph problem
MaxCost == 3        \* largest action cost of an enumerated graph problem
MaxH == 1           \* largest heuristic value of an enumerated graph problem
MaxDepth == 31      \* most actions a walk applies
CallDepth == 4      \* most actions between a start state and a called state

(* Program constant: the depth cut of DFSAgent.dfs *)
DepthLimit == 45

-----------------------------------------------------------------------------
(* Small helpers *)

Max(x, y) == IF x >= y THEN x ELSE y
Min(x, y) == IF x <= y THEN x ELSE y

SelectActions(present) ==
    (IF present[1] THEN <<"a">> ELSE <<>>) \o (IF present[2] THEN <<"b">> ELSE <<>>)

Abs(x) == IF x >= 0 THEN x ELSE -x

-----------------------------------------------------------------------------
(* class Problem and its implementations.                                  *)
(*                                                                         *)
(* A problem value is the vacuum world, [kind |-> "vacuum",                *)
(* heuristic |-> ...], whose states are <<robot, dirty>>, the 8-puzzle,    *)
(* [kind |-> "puzzle", heuristic |-> ...], whose states are                *)
(* <<position, board>> with board[i + 1] the tile on position i and tile 0 *)
(* the blank, or a table                                                   *)
(* driven Problem [kind |-> "graph", a, b, goal, cost_b, h] over states    *)
(* 1..Len(a): a[s] and b[s] are the states actions "a" and "b" lead to     *)
(* from s (0: the action is not available in s), goal is the goal state    *)
(* (0: none), action "a" costs 1, action "b" costs cost_b, and h[s] is the *)
(* heuristic value of s.                                                   *)

initial_state(p) ==
    CASE p.kind = "vacuum" -> <<0, <<TRUE, TRUE>>>>
      [] p.kind = "puzzle" -> <<4, <<7, 2, 4, 5, 0, 6, 8, 3, 1>>>>
      [] OTHER -> 1

\* "Down" is offered in the top row as well
PuzzleActions_DownAlways(state) ==
    LET position == state[1]
    IN  (IF position % 3 > 0 THEN <<"Right">> ELSE <<>>)
        \o (IF position % 3 < 2 THEN <<"Left">> ELSE <<>>)
        \o <<"Down">>
        \o (IF position < 6 THEN <<"Up">> ELSE <<>>)

PuzzleActions(state) ==
    LET position == state[1]
    IN  (IF position % 3 > 0 THEN <<"Right">> ELSE <<>>)
        \o (IF position % 3 < 2 THEN <<"Left">> ELSE <<>>)
        \o (IF position > 2 THEN <<"Down">> ELSE <<>>)
        \o (IF position < 6 THEN <<"Up">> ELSE <<>>)

available_actions(p, state) ==
    CASE p.kind = "vacuum" -> <<"Left", "Suck", "Right">>
      [] p.kind = "puzzle" -> PuzzleActions(state)
      [] OTHER -> SelectActions(<<p.a[state] # 0, p.b[state] # 0>>)

\* Suck always cleans the first room
VacuumDoAction_SuckFirstRoom(state, action) ==
    LET robot == state[1]
        dirty == state[2]
    IN  CASE action = "Left"  -> <<Max(robot - 1, 0), dirty>>
          [] action = "Suck"  -> <<robot, [dirty EXCEPT ![1] = FALSE]>>
          [] action = "Right" -> <<Min(robot + 1, Len(dirty) - 1), dirty>>

\* Left without the lower limit 0
VacuumDoAction_LeftUnclamped(state, action) ==
    LET robot == state[1]
        dirty == state[2]
    IN  CASE action = "Left"  -> <<robot - 1, dirty>>
          [] action = "Suck"  -> <<robot, [dirty EXCEPT ![robot + 1] = FALSE]>>
          [] action = "Right" -> <<Min(robot + 1, Len(dirty) - 1), dirty>>

\* Suck flips the dirt flag of the robot's room
VacuumDoAction_SuckToggles(state, action) ==
    LET robot == state[1]
        dirty == state[2]
    IN  CASE action = "Left"  -> <<Max(robot - 1, 0), dirty>>
          [] action = "Suck"  -> <<robot, [dirty EXCEPT ![robot + 1] = ~@]>>
          [] action = "Right" -> <<Min(robot + 1, Len(dirty) - 1), dirty>>

VacuumDoAction(state, action) ==
    LET robot == state[1]
        dirty == state[2]
    IN  CASE action = "Left"  -> <<Max(robot - 1, 0), dirty>>
          [] action = "Suck"  -> <<robot, [dirty EXCEPT ![robot + 1] = FALSE]>>
          [] action = "Right" -> <<Min(robot + 1, Len(dirty) - 1), dirty>>

\* board[position], board[other] = board[other], board[position] and the
\* new state (other, board)
PuzzleSwap(state, other) ==
    LET position == state[1]
        board == state[2]
    IN  <<other, [board EXCEPT ![position + 1] = board[other + 1],
                               ![other + 1] = board[position + 1]]>>

PuzzleDoAction(state, action) ==
    LET position == state[1]
    IN  CASE action = "Down"  -> PuzzleSwap(state, position - 3)
          [] action = "Up"    -> PuzzleSwap(state, position + 3)
          [] action = "Right" -> PuzzleSwap(state, position - 1)
          [] action = "Left"  -> PuzzleSwap(state, position + 1)

do_action(p, state, action) ==
    CASE p.kind = "vacuum" -> VacuumDoAction(state, action)
      [] p.kind = "puzzle" -> PuzzleDoAction(state, action)
      [] OTHER -> IF action = "a" THEN p.a[state] ELSE p.b[state]

PuzzleGoal == <<0, <<0, 1, 2, 3, 4, 5, 6, 7, 8>>>>

is_goal(p, state) ==
    CASE p.kind = "vacuum" -> \A i \in 1..Len(state[2]) : ~state[2][i]
      [] p.kind = "puzzle" -> state = PuzzleGoal
      [] OTHER -> state = p.goal

action_cost(p, state, action) ==
    IF p.kind \in {"vacuum", "puzzle"} THEN 1
    ELSE IF action = "a" THEN 1 ELSE p.cost_b

\* len(state[1]) in place of sum(state[1])
DirtyCount_Rooms(dirty) == Len(dirty)

DirtyCount(dirty) == Cardinality({i \in 1..Len(dirty) : dirty[i]})

\* what the iteration for position i of PuzzleProblem1.heuristic adds to cost
MisplacedAt(state, i) ==
    IF i # state[2][i + 1] /\ i # state[1] THEN 1 ELSE 0

\* PuzzleProblem1.heuristic: cost after "for i in range(9)"
Misplaced(state) ==
    MisplacedAt(state, 0) + MisplacedAt(state, 1) + MisplacedAt(state, 2)
    + MisplacedAt(state, 3) + MisplacedAt(state, 4) + MisplacedAt(state, 5)
    + MisplacedAt(state, 6) + MisplacedAt(state, 7) + MisplacedAt(state, 8)

\* the distance of the blank is added as well
ManhattanAt_WithBlank(state, i) ==
    Abs((state[2][i + 1] \div 3) - (i \div 3)) + Abs((i % 3) - (state[2][i + 1] % 3))

\* what the iteration for position i of PuzzleProblem2.heuristic adds to cost
ManhattanAt(state, i) ==
    IF i # state[1]
    THEN Abs((state[2][i + 1] \div 3) - (i \div 3)) + Abs((i % 3) - (state[2][i + 1] % 3))
    ELSE 0

\* PuzzleProblem2.heuristic: cost after "for i in range(9)"
Manhattan(state) ==
    ManhattanAt(state, 0) + ManhattanAt(state, 1) + ManhattanAt(state, 2)
    + ManhattanAt(state, 3) + ManhattanAt(state, 4) + ManhattanAt(state, 5)
    + ManhattanAt(state, 6) + ManhattanAt(state, 7) + ManhattanAt(state, 8)

heuristic(p, state) ==
    CASE p.kind = "vacuum" ->
           (CASE p.heuristic = "dirty"   -> DirtyCount(state[2])
              [] p.heuristic = "clean"   -> Len(state[2]) - DirtyCount(state[2])
              [] p.heuristic = "dirty10" -> 10 * DirtyCount(state[2])
              [] p.heuristic = "zero"    -> 0)
      [] p.kind = "puzzle" ->
           (CASE p.heuristic = "zero"      -> 0
              [] p.heuristic = "misplaced" -> Misplaced(state)
              [] p.heuristic = "manhattan" -> Manhattan(state))
      [] OTHER -> p.h[state]

VacuumProblem  == [kind |-> "vacuum", heuristic |-> "dirty"]
VacuumProblem1 == [kind |-> "vacuum", heuristic |-> "clean"]
VacuumProblem2 == [kind |-> "vacuum", heuristic |-> "dirty10"]
VacuumProblem0 == [kind |-> "vacuum", heuristic |-> "zero"]

PuzzleProblem  == [kind |-> "puzzle", heuristic |-> "zero"]
PuzzleProblem1 == [kind |-> "puzzle", heuristic |-> "misplaced"]
PuzzleProblem2 == [kind |-> "puzzle", heuristic |-> "manhattan"]

-----------------------------------------------------------------------------
(* The problems a session is run on *)

States == 1..NumStates

Zeros(n) == [s \in 1..n |-> 0]

\* Problem objects of the first notebook (no costs, no heuristic): action
\* "a" leads from s to s+1 when present, action "b" leads anywhere.
UninformedGraphs ==
    { [kind |-> "graph", a |-> ga, b |-> gb, goal |-> g, cost_b |-> 1,
       h |-> Zeros(NumStates)] :
        ga \in { f \in [States -> 0..NumStates] :
                    \A s \in States : f[s] \in {0, s + 1} \cap (0..NumStates) },
        gb \in [States -> 0..NumStates],
        g \in 0..NumStates }

\* Problem objects of lab2: action "a" leads from s to s+1, action "b"
\* leads anywhere at a cost of 1..MaxCost, and the heuristic is 0 except
\* in at most one state, where it is at most MaxH.
InformedGraphs ==
    { [kind |-> "graph",
       a |-> [s \in States |-> IF s < NumStates THEN s + 1 ELSE 0],
       b |-> gb, goal |-> g, cost_b |-> c, h |-> gh] :
        gb \in [States -> 0..NumStates],
        g \in {0, NumStates},
        c \in 1..MaxCost,
        gh \in { [s \in States |-> IF s = k THEN v ELSE 0] :
                    k \in States, v \in 0..MaxH } }

\* The same problem with the heuristic that returns 0 for every state
\* (the heuristic of lab2's PuzzleProblem).
ZeroHeuristic(p) ==
    IF p.kind = "vacuum" THEN VacuumProblem0 ELSE [p EXCEPT !.h = Zeros(Len(p.h))]

HasNonZeroHeuristic(p) ==
    IF p.kind = "vacuum" THEN p.heuristic # "zero"
    ELSE \E s \in 1..Len(p.h) : p.h[s] # 0

\* A chain longer than the depth cut of dfs: action "a" leads from s to
\* s + 1 for s = 1..DepthLimit + 1, action "b" leads from the initial state
\* to the state DepthLimit + 1 at the end of the longest action sequence
\* dfs follows, and the goal is the state g.
DeepChain(g) ==
    [kind |-> "graph",
     a |-> [s \in 1..(DepthLimit + 2) |-> IF s <= DepthLimit + 1 THEN s + 1 ELSE 0],
     b |-> [s \in 1..(DepthLimit + 2) |-> IF s = 1 THEN DepthLimit + 1 ELSE 0],
     goal |-> g, cost_b |-> 1, h |-> Zeros(DepthLimit + 2)]

-----------------------------------------------------------------------------
(* Results of a run *)

None == [status |-> "None", plan |-> <<>>, count |-> 0]
Plan(route) == [status |-> "plan", plan |-> route, count |-> 0]
IndexError == [status |-> "IndexError", plan |-> <<>>, count |-> 0]

prob == probs[run]

\* the strategies that are classes with a plan and next_action
Agents == {"oracle", "bfs", "dfs"}

\* the run has ended with r: record it and go on, an agent to the loop that
\* executes its plan, astar to the next problem; an exception that escapes
\* the run ends the session
Finish(r) ==
    /\ results' = Append(results, r)
    /\ IF r.status = "IndexError" THEN run' = run /\ pc' = "done"
       ELSE IF alg \in Agents THEN run' = run /\ pc' = "agent"
       ELSE IF run < Len(probs) THEN run' = run + 1 /\ pc' = "start"
       ELSE run' = run /\ pc' = "done"

-----------------------------------------------------------------------------
(* OracularAgent *)

oracle == <<"Suck", "Right", "Suck">>

\* OracularAgent.__init__: self.plan = self.oracle()
OracleStart ==
    /\ pc = "start" /\ alg = "oracle"
    /\ Finish(Plan(oracle))
    /\ UNCHANGED <<alg, probs, agent, driver, generated, entered, heap, taken_states,
                   visited, idx, stack, ret, queue>>

-----------------------------------------------------------------------------
(* BFSAgent *)

\* the for loop of bfs over acts[i..], from the entry [route, starting_state];
\* the goal test reads the notebook's global problem, which is the object
\* the agent was constructed with
RECURSIVE BfsFor(_, _, _, _, _, _, _)
BfsFor(p, vis, taken, route, starting_state, acts, i) ==
    IF i > Len(acts)
    THEN [visited |-> vis, taken |-> taken, returned |-> FALSE, plan |-> <<>>]
    ELSE LET action == acts[i]
             state == do_action(p, starting_state, action)
             fresh == state \notin taken
             vis2 == IF fresh
                     THEN Append(vis, [route |-> Append(route, action), state |-> state])
                     ELSE vis
             taken2 == IF fresh THEN taken \cup {state} ELSE taken
         IN  IF is_goal(p, state)
             THEN [visited |-> vis2, taken |-> taken2, returned |-> TRUE,
                   plan |-> vis2[Len(vis2)].route]
             ELSE BfsFor(p, vis2, taken2, route, starting_state, acts, i + 1)

\* BFSAgent.__init__ and the first lines of bfs
BfsStart ==
    /\ pc = "start" /\ alg = "bfs"
    /\ visited' = << [route |-> <<>>, state |-> initial_state(prob)] >>
    /\ heap' = << {} >>
    /\ taken_states' = 1
    /\ idx' = 0
    /\ pc' = "bfs"
    /\ UNCHANGED <<alg, probs, agent, driver, generated, entered, run, results, stack, ret, queue>>

\* one iteration of "while 1"
BfsIterate ==
    /\ pc = "bfs"
    /\ IF idx >= Len(visited)
       THEN \* visited[idx] raises IndexError
            /\ Finish(IndexError)
            /\ UNCHANGED <<visited, heap, idx>>
       ELSE LET starting_state == visited[idx + 1].state
                route_to_starting_state == visited[idx + 1].route
                r == BfsFor(prob, visited, heap[taken_states],
                            route_to_starting_state, starting_state,
                            available_actions(prob, starting_state), 1)
            IN  /\ visited' = r.visited
                /\ heap' = [heap EXCEPT ![taken_states] = r.taken]
                /\ IF r.returned
                   THEN Finish(Plan(r.plan)) /\ idx' = idx
                   ELSE idx' = idx + 1 /\ UNCHANGED <<run, pc, results>>
    /\ UNCHANGED <<alg, probs, agent, driver, generated, entered, taken_states, stack, ret, queue>>

-----------------------------------------------------------------------------
(* DFSAgent *)

NoReturn == [pending |-> FALSE, isNone |-> TRUE, route |-> <<>>]
ReturnNone == [pending |-> TRUE, isNone |-> TRUE, route |-> <<>>]
ReturnRoute(steps) == [pending |-> TRUE, isNone |-> FALSE, route |-> steps]

\* Python truth value of a returned route: None and [] are false
Truthy(r) == ~r.isNone /\ r.route # <<>>

Top == stack[Len(stack)]
Pop == SubSeq(stack, 1, Len(stack) - 1)
SetTopK(k) == [stack EXCEPT ![Len(stack)].k = k]

\* the set is left as it was
AddTaken_Forgotten(taken, later_state) == taken

\* taken_states.add(later_state)
AddTaken(taken, later_state) == taken \cup {later_state}

\* a search without the depth cut
WithinDepth_Unbounded(steps) == TRUE

\* len(steps) < 45
WithinDepth(steps) == Len(steps) < DepthLimit

\* DFSAgent.__init__: the set holding the initial state and the first call
DfsStart ==
    /\ pc = "start" /\ alg = "dfs"
    /\ heap' = << {initial_state(prob)} >>
    /\ taken_states' = 1
    /\ stack' = << [initial_state |-> initial_state(prob), steps |-> <<>>, k |-> 0] >>
    /\ ret' = NoReturn
    /\ entered' = << initial_state(prob) >>
    /\ pc' = "dfs"
    /\ UNCHANGED <<alg, probs, agent, driver, generated, run, results, visited, idx, queue>>

\* entry of dfs: the goal test
DfsEnter ==
    /\ pc = "dfs" /\ ~ret.pending /\ stack # <<>> /\ Top.k = 0
    /\ IF is_goal(prob, Top.initial_state)
       THEN stack' = Pop /\ ret' = ReturnRoute(Top.steps)
       ELSE stack' = SetTopK(1) /\ ret' = ret
    /\ UNCHANGED <<alg, probs, agent, driver, generated, entered, run, pc, results, heap, taken_states, visited, idx, queue>>

\* one iteration of the for loop, up to the recursive call
DfsLoop ==
    /\ pc = "dfs" /\ ~ret.pending /\ stack # <<>>
    /\ Top.k \in 1..Len(available_actions(prob, Top.initial_state))
    /\ LET action == available_actions(prob, Top.initial_state)[Top.k]
           later_state == do_action(prob, Top.initial_state, action)
       IN  IF later_state \notin heap[taken_states] /\ WithinDepth(Top.steps)
           THEN /\ heap' = [heap EXCEPT ![taken_states] = AddTaken(@, later_state)]
                /\ entered' = Append(entered, later_state)
                /\ stack' = Append(stack, [initial_state |-> later_state,
                                           steps |-> Append(Top.steps, action),
                                           k |-> 0])
           ELSE /\ stack' = SetTopK(Top.k + 1)
                /\ heap' = heap
                /\ entered' = entered
    /\ UNCHANGED <<alg, probs, agent, driver, generated, run, pc, results, taken_states, visited, idx, ret, queue>>

\* the for loop is exhausted: the call falls off its end and returns None
DfsFallOff ==
    /\ pc = "dfs" /\ ~ret.pending /\ stack # <<>>
    /\ Top.k > Len(available_actions(prob, Top.initial_state))
    /\ stack' = Pop
    /\ ret' = ReturnNone
    /\ UNCHANGED <<alg, probs, agent, driver, generated, entered, run, pc, results, heap, taken_states, visited, idx, queue>>

\* the recursive call has returned route: "if route: return route"
DfsResume ==
    /\ pc = "dfs" /\ ret.pending /\ stack # <<>>
    /\ IF Truthy(ret)
       THEN stack' = Pop /\ ret' = ret
       ELSE stack' = SetTopK(Top.k + 1) /\ ret' = NoReturn
    /\ UNCHANGED <<alg, probs, agent, driver, generated, entered, run, pc, results, heap, taken_states, visited, idx, queue>>

\* the outermost call has returned: self.plan = ...
DfsFinish ==
    /\ pc = "dfs" /\ ret.pending /\ stack = <<>>
    /\ Finish(IF ret.isNone THEN None ELSE Plan(ret.route))
    /\ ret' = NoReturn
    /\ UNCHANGED <<alg, probs, agent, driver, generated, entered, heap, taken_states, visited, idx, stack, queue>>

-----------------------------------------------------------------------------
(* astar *)

\* the actions ordered as available_actions lists them
ActionOrd_ListOrder(action) ==
    CASE action = "Left"  -> 1
      [] action = "Suck"  -> 2
      [] action = "Right" -> 3
      [] action = "Up"    -> 4
      [] action = "Down"  -> 5
      [] action = "a"     -> 6
      [] action = "b"     -> 7

\* order of Python strings on the action names in use
ActionOrd(action) ==
    CASE action = "Down"  -> 1
      [] action = "Left"  -> 2
      [] action = "Right" -> 3
      [] action = "Suck"  -> 4
      [] action = "Up"    -> 5
      [] action = "a"     -> 6
      [] action = "b"     -> 7

\* s < t for Python lists or tuples of integers
IntSeqLess(s, t) ==
    \E i \in 1..(Min(Len(s), Len(t)) + 1) :
        /\ \A j \in 1..(i - 1) : s[j] = t[j]
        /\ IF i <= Len(s) /\ i <= Len(t) THEN s[i] < t[i]
           ELSE i > Len(s) /\ i <= Len(t)

RouteLess(r1, r2) ==
    IntSeqLess([i \in 1..Len(r1) |-> ActionOrd(r1[i])],
               [i \in 1..Len(r2) |-> ActionOrd(r2[i])])

BoolOrd(b) == IF b THEN 1 ELSE 0

StateLess(p, s, t) ==
    CASE p.kind = "vacuum" ->
           \/ s[1] < t[1]
           \/ /\ s[1] = t[1]
              /\ IntSeqLess([i \in 1..Len(s[2]) |-> BoolOrd(s[2][i])],
                            [i \in 1..Len(t[2]) |-> BoolOrd(t[2][i])])
      [] p.kind = "puzzle" ->
           \/ s[1] < t[1]
           \/ s[1] = t[1] /\ IntSeqLess(s[2], t[2])
      [] OTHER -> s < t

\* e1 < e2 for the tuples (cost, route, state, taken_states, action_costs);
\* the sets of two entries are one and the same object, hence equal
EntryLess(p, e1, e2) ==
    IF e1.cost # e2.cost THEN e1.cost < e2.cost
    ELSE IF e1.route # e2.route THEN RouteLess(e1.route, e2.route)
    ELSE IF e1.state # e2.state THEN StateLess(p, e1.state, e2.state)
    ELSE IF e1.taken_states # e2.taken_states THEN FALSE
    ELSE e1.action_costs < e2.action_costs

\* the entries of least cost, whatever their routes
MinEntries_CostOnly(p, q) == { e \in q : \A f \in q : e.cost <= f.cost }

\* the entries queue.get() may return
MinEntries(p, q) == { e \in q : \A f \in q : ~EntryLess(p, f, e) }

\* later_route when the action is not appended to the copy
LaterRoute_NotExtended(route, action) == route

\* later_route = route.copy(); later_route.append(action)
LaterRoute(route, action) == Append(route, action)

\* later_cost without the heuristic of the state reached
LaterCost_NoHeuristic(p, e, action, later_state) ==
    e.action_costs + action_cost(p, e.state, action)

\* later_cost = action_costs + action_cost(state, action) + heuristic(later_state)
LaterCost(p, e, action, later_state) ==
    e.action_costs + action_cost(p, e.state, action) + heuristic(p, later_state)

\* the set is copied and the copy, with later_state added, goes into the
\* new entry
MarkTaken_Snapshot(hp, ref, later_state) ==
    [heap |-> Append(hp, hp[ref] \cup {later_state}), ref |-> Len(hp) + 1]

\* taken_states.add(later_state): the set object is updated in place and the
\* new entry is given the reference to that same object
MarkTaken(hp, ref, later_state) ==
    [heap |-> [hp EXCEPT ![ref] = @ \cup {later_state}], ref |-> ref]

\* len(taken_states) without the initial state
VisitedCount_WithoutInitial(hp, ref) == Cardinality(hp[ref]) - 1

\* len(taken_states)
VisitedCount(hp, ref) == Cardinality(hp[ref])

\* the for loop of astar over acts[i..] for the entry e; put lists the
\* states of the entries it has put on the queue
RECURSIVE AstarFor(_, _, _, _, _, _, _)
AstarFor(p, q, hp, put, e, acts, i) ==
    IF i > Len(acts)
    THEN [queue |-> q, heap |-> hp, put |-> put]
    ELSE LET action == acts[i]
             later_state == do_action(p, e.state, action)
             later_cost == LaterCost(p, e, action, later_state)
         IN  IF later_state \notin hp[e.taken_states]
             THEN LET later_route == LaterRoute(e.route, action)
                      marked == MarkTaken(hp, e.taken_states, later_state)
                      later_action_costs == e.action_costs + action_cost(p, e.state, action)
                  IN  AstarFor(p,
                               q \cup {[cost |-> later_cost, route |-> later_route,
                                        state |-> later_state,
                                        taken_states |-> marked.ref,
                                        action_costs |-> later_action_costs]},
                               marked.heap,
                               Append(put, later_state),
                               e, acts, i + 1)
             ELSE AstarFor(p, q, hp, put, e, acts, i + 1)

\* the lines of astar before the loop
AstarStart ==
    /\ pc = "start" /\ alg = "astar"
    /\ heap' = << {initial_state(prob)} >>
    /\ taken_states' = 1
    /\ queue' = { [cost |-> heuristic(prob, initial_state(prob)), route |-> <<>>,
                   state |-> initial_state(prob), taken_states |-> 1,
                   action_costs |-> 0] }
    /\ generated' = {initial_state(prob)}
    /\ pc' = "astar"
    /\ entered' = << initial_state(prob) >>
    /\ UNCHANGED <<alg, probs, agent, driver, run, results, visited, idx, stack, ret>>

\* one iteration of the while loop
AstarGet ==
    /\ pc = "astar" /\ queue # {}
    /\ \E e \in MinEntries(prob, queue) :
        /\ taken_states' = e.taken_states
        /\ IF is_goal(prob, e.state)
           THEN /\ Finish([status |-> "plan", plan |-> e.route,
                           count |-> VisitedCount(heap, e.taken_states)])
                /\ queue' = queue \ {e}
                /\ heap' = heap
                /\ generated' = generated
                /\ entered' = entered
           ELSE LET acts == available_actions(prob, e.state)
                    r == AstarFor(prob, queue \ {e}, heap, <<>>, e, acts, 1)
                IN  /\ queue' = r.queue
                    /\ heap' = r.heap
                    /\ entered' = entered \o r.put
                    /\ generated' = generated \cup
                          { do_action(prob, e.state, acts[i]) : i \in 1..Len(acts) }
                    /\ UNCHANGED <<run, pc, results>>
    /\ UNCHANGED <<alg, probs, agent, driver, visited, idx, stack, ret>>

\* the queue is empty: print the count and return None
AstarEmpty ==
    /\ pc = "astar" /\ queue = {}
    /\ Finish([status |-> "None", plan |-> <<>>,
               count |-> VisitedCount(heap, taken_states)])
    /\ UNCHANGED <<alg, probs, agent, driver, generated, entered, heap, taken_states, visited, idx, stack, ret, queue>>

\* the plan the notebook's output records for BFSAgent(PuzzleProblem())
BfsPuzzlePlan ==
    <<"Right", "Down", "Left", "Up", "Left", "Up", "Right", "Right", "Down",
      "Left", "Left", "Up", "Right", "Right", "Down", "Left", "Left", "Down",
      "Right", "Right", "Up", "Left", "Left", "Down", "Right", "Right">>

-----------------------------------------------------------------------------
(* The cell that executes an agent's plan *)

Idle == [state |-> 0, start |-> 0, action |-> "", calls |-> 0, loop |-> "idle"]

NoAgent == [isNone |-> TRUE, plan |-> <<>>]

\* Agent.next_action: return self.plan.pop(0)
next_action(ag) ==
    [action |-> Head(ag.plan), agent |-> [ag EXCEPT !.plan = Tail(@)]]

\* agent = ...Agent(problem) has returned; state = problem.initial_state.
\* The cell does not assign "action": the name keeps the value the cell
\* before left in it and is unbound ("") in a fresh notebook.
DriveStart ==
    /\ pc = "agent"
    /\ agent' = [isNone |-> results[run].status = "None", plan |-> results[run].plan]
    /\ driver' = [state |-> initial_state(prob), start |-> initial_state(prob),
                  action |-> driver.action, calls |-> 0, loop |-> "running"]
    /\ pc' = "drive"
    /\ UNCHANGED <<alg, probs, run, results, generated, entered, heap, taken_states,
                   visited, idx, stack, ret, queue>>

\* the test of "while not problem.is_goal(state)" and, when it passes, the
\* body of the loop; None has no pop and an empty list cannot be popped
DriveLoop ==
    /\ pc = "drive"
    /\ IF is_goal(prob, driver.state)
       THEN /\ driver' = [driver EXCEPT !.loop = "goal"]
            /\ agent' = agent
            /\ pc' = "reached"
       ELSE IF agent.isNone
       THEN /\ driver' = [driver EXCEPT !.loop = "AttributeError"]
            /\ agent' = agent
            /\ pc' = "done"
       ELSE IF agent.plan = <<>>
       THEN /\ driver' = [driver EXCEPT !.loop = "IndexError"]
            /\ agent' = agent
            /\ pc' = "done"
       ELSE LET r == next_action(agent)
            IN  /\ agent' = r.agent
                /\ driver' = [driver EXCEPT
                                !.state = do_action(prob, driver.state, r.action),
                                !.action = r.action,
                                !.calls = @ + 1]
                /\ pc' = pc
    /\ UNCHANGED <<alg, probs, run, results, generated, entered, heap, taken_states,
                   visited, idx, stack, ret, queue>>

\* the two prints after the loop; the session goes on to its next cell
DriveReport ==
    /\ pc = "reached"
    /\ IF run < Len(probs)
       THEN run' = run + 1 /\ pc' = "start"
       ELSE run' = run /\ pc' = "done"
    /\ UNCHANGED <<alg, probs, agent, driver, results, generated, entered, heap,
                   taken_states, visited, idx, stack, ret, queue>>

-----------------------------------------------------------------------------
(* The cells that apply actions by hand *)

\* the states do_action is applied from: problem.initial_state and, for the
\* puzzle, the goal state of is_goal as well
WalkStarts(p) ==
    IF p.kind = "puzzle" THEN {initial_state(p), PuzzleGoal} ELSE {initial_state(p)}

\* state = problem.initial_state
WalkStart ==
    /\ pc = "start" /\ alg = "walk"
    /\ \E s \in WalkStarts(prob) :
          driver' = [state |-> s, start |-> s, action |-> "", calls |-> 0,
                     loop |-> "walk"]
    /\ pc' = "walk"
    /\ UNCHANGED <<alg, probs, run, results, agent, generated, entered, heap,
                   taken_states, visited, idx, stack, ret, queue>>

\* state = problem.do_action(state, action) for an available action
Walk ==
    /\ pc = "walk"
    /\ driver.calls < MaxDepth
    /\ \E i \in 1..Len(available_actions(prob, driver.state)) :
          LET action == available_actions(prob, driver.state)[i]
          IN  driver' = [driver EXCEPT
                           !.state = do_action(prob, driver.state, action),
                           !.calls = @ + 1]
    /\ UNCHANGED <<alg, probs, run, pc, results, agent, generated, entered, heap,
                   taken_states, visited, idx, stack, ret, queue>>

\* state = problem.initial_state, for a walk of any length
RoamStart ==
    /\ pc = "start" /\ alg = "roam"
    /\ driver' = [state |-> initial_state(prob), start |-> initial_state(prob),
                  action |-> "", calls |-> 0, loop |-> "roam"]
    /\ pc' = "roam"
    /\ UNCHANGED <<alg, probs, run, results, agent, generated, entered, heap,
                   taken_states, visited, idx, stack, ret, queue>>

\* state = problem.do_action(state, action) for an available action; the
\* calls are not counted
Roam ==
    /\ pc = "roam"
    /\ \E i \in 1..Len(available_actions(prob, driver.state)) :
          LET action == available_actions(prob, driver.state)[i]
          IN  driver' = [driver EXCEPT
                           !.state = do_action(prob, driver.state, action)]
    /\ UNCHANGED <<alg, probs, run, pc, results, agent, generated, entered, heap,
                   taken_states, visited, idx, stack, ret, queue>>

-----------------------------------------------------------------------------
(* Calls of do_action with any action name *)

\* the action names of the notebooks
ActionNames == {"Left", "Suck", "Right", "Up", "Down"}

\* the states within k available actions of the states of S
RECURSIVE Within(_, _, _)
Within(p, S, k) ==
    IF k = 0 THEN S
    ELSE Within(p, S \cup { do_action(p, s, available_actions(p, s)[i]) :
                              <<s, i>> \in { <<t, j>> \in S \X (1..4) :
                                               j <= Len(available_actions(p, t)) } },
                k - 1)

\* the outcomes of a call: a returned state or a raised exception
Returned(state) == [raised |-> "", state |-> state]
Raised(exception) == [raised |-> exception, state |-> <<>>]

\* Python's list[i] on a list of n items: a negative i counts from the end
ListIndex(i, n) == IF i >= 0 THEN i ELSE i + n
IndexInRange(i, n) == -n <= i /\ i < n

\* the index the blank is swapped with: position-3, position+3, position-1,
\* position+1
PuzzleOther(position, action) ==
    CASE action = "Down"  -> position - 3
      [] action = "Up"    -> position + 3
      [] action = "Right" -> position - 1
      [] action = "Left"  -> position + 1

\* PuzzleProblem.do_action called with any action name
PuzzleCall(state, action) ==
    IF action \notin {"Down", "Up", "Right", "Left"} THEN Raised("Exception")
    ELSE LET position == state[1]
             board == state[2]
             other == PuzzleOther(position, action)
             n == Len(board)
         IN  IF ~IndexInRange(other, n) \/ ~IndexInRange(position, n)
             THEN Raised("IndexError")
             ELSE Returned(<<other,
                             [board EXCEPT
                                ![ListIndex(position, n) + 1] = board[ListIndex(other, n) + 1],
                                ![ListIndex(other, n) + 1] = board[ListIndex(position, n) + 1]]>>)

\* VacuumProblem.do_action called with any action name
VacuumCall(state, action) ==
    IF action \in {"Left", "Suck", "Right"}
    THEN Returned(VacuumDoAction(state, action))
    ELSE Raised("Exception")

\* problem.do_action(state, action)
Call(p, state, action) ==
    IF p.kind = "vacuum" THEN VacuumCall(state, action) ELSE PuzzleCall(state, action)

\* state = a state of the problem
CallStart ==
    /\ pc = "start" /\ alg = "call"
    /\ \E s \in Within(prob, WalkStarts(prob), CallDepth) :
          driver' = [state |-> s, start |-> s, action |-> "", calls |-> 0,
                     loop |-> "call"]
    /\ pc' = "call"
    /\ UNCHANGED <<alg, probs, run, results, agent, generated, entered, heap,
                   taken_states, visited, idx, stack, ret, queue>>

\* state = problem.do_action(state, action) for any action name: the cell
\* ends with the state returned or with the exception raised
CallDoAction ==
    /\ pc = "call"
    /\ \E action \in ActionNames :
          LET r == Call(prob, driver.state, action)
          IN  driver' = [driver EXCEPT
                           !.state = IF r.raised = "" THEN r.state ELSE @,
                           !.action = action,
                           !.calls = @ + 1,
                           !.loop = IF r.raised = "" THEN "returned" ELSE r.raised]
    /\ pc' = "done"
    /\ UNCHANGED <<alg, probs, run, results, agent, generated, entered, heap,
                   taken_states, visited, idx, stack, ret, queue>>

-----------------------------------------------------------------------------
(* Sessions *)

\* a graph on which the zero heuristic lets astar report fewer states
TieGraph ==
    [kind |-> "graph", a |-> <<5, 6, 4, 5, 6, 0>>, b |-> <<3, 6, 6, 2, 0, 0>>,
     goal |-> 6, cost_b |-> 1, h |-> <<0, 1, 0, 0, 1, 0>>]

\* the notebook before its first cell is run
Fresh ==
    /\ run = 1
    /\ pc = "start"
    /\ results = <<>>
    /\ heap = <<>>
    /\ taken_states = 1
    /\ visited = <<>>
    /\ idx = 0
    /\ stack = <<>>
    /\ ret = NoReturn
    /\ queue = {}
    /\ agent = NoAgent
    /\ driver = Idle
    /\ generated = {}
    /\ entered = <<>>

Init ==
    /\ \/ /\ alg \in {"bfs", "dfs"}
          /\ \E p \in UninformedGraphs : probs = <<p, p>>
       \/ /\ alg \in {"bfs", "dfs"}
          /\ probs = <<VacuumProblem, VacuumProblem>>
       \/ /\ alg = "astar"
          /\ \E p \in InformedGraphs : probs = <<p, p>>
       \/ /\ alg = "astar"
          /\ \E p \in {VacuumProblem, VacuumProblem1, VacuumProblem2, VacuumProblem0} :
                \/ probs = <<p, p>>
                \/ HasNonZeroHeuristic(p) /\ probs = <<ZeroHeuristic(p), p>>
       \/ /\ alg = "astar"
          /\ probs = <<VacuumProblem, VacuumProblem1, VacuumProblem2>>
       \/ /\ alg = "astar"
          /\ probs = <<ZeroHeuristic(TieGraph), TieGraph>>
       \/ /\ alg = "dfs"
          /\ \E g \in {DepthLimit + 1, DepthLimit + 2} : probs = <<DeepChain(g)>>
       \/ /\ alg = "oracle"
          /\ probs = <<VacuumProblem, VacuumProblem>>
       \/ /\ alg = "walk"
          /\ probs = <<VacuumProblem>>
    /\ Fresh

\* The 8-puzzle: available_actions and do_action applied to the states
\* within MaxDepth actions of the initial state and of the goal state
InitPuzzle ==
    /\ alg = "walk"
    /\ probs = <<PuzzleProblem>>
    /\ Fresh

Next ==
    \/ BfsStart
    \/ BfsIterate
    \/ DfsStart
    \/ DfsEnter
    \/ DfsLoop
    \/ DfsFallOff
    \/ DfsResume
    \/ DfsFinish
    \/ AstarStart
    \/ AstarGet
    \/ AstarEmpty
    \/ OracleStart
    \/ DriveStart
    \/ DriveLoop
    \/ DriveReport
    \/ WalkStart
    \/ Walk

Spec == Init /\ [][Next]_vars

NextPuzzle ==
    \/ WalkStart
    \/ Walk

SpecPuzzle == InitPuzzle /\ [][NextPuzzle]_vars

\* a session that walks the 8-puzzle from its initial state as far as the
\* available actions lead
InitRoam ==
    /\ alg = "roam"
    /\ probs = <<PuzzleProblem>>
    /\ Fresh

NextRoam ==
    \/ RoamStart
    \/ Roam

SpecRoam == InitRoam /\ [][NextRoam]_vars

\* a session that calls do_action once
InitCall ==
    /\ alg = "call"
    /\ probs \in {<<VacuumProblem>>, <<PuzzleProblem>>}
    /\ Fresh

NextCall ==
    \/ CallStart
    \/ CallDoAction

SpecCall == InitCall /\ [][NextCall]_vars

\* Sessions of one run of dfs or astar: the vacuum world, the chain beyond
\* the depth cut and the graph problems whose action "a" is the whole chain,
\* for astar with the dearest action "b" and a heuristic that is 0 before
\* the last state.
InitFair ==
    /\ \/ /\ alg = "dfs"
          /\ \E p \in UninformedGraphs :
                /\ \A s \in States : p.a[s] = IF s < NumStates THEN s + 1 ELSE 0
                /\ p.goal \in {0, NumStates}
                /\ probs = <<p>>
       \/ /\ alg = "dfs"
          /\ \E g \in {DepthLimit + 1, DepthLimit + 2} : probs = <<DeepChain(g)>>
       \/ /\ alg \in {"dfs", "astar"}
          /\ probs = <<VacuumProblem>>
       \/ /\ alg = "astar"
          /\ \E p \in {VacuumProblem1, VacuumProblem2, VacuumProblem0} : probs = <<p>>
       \/ /\ alg = "astar"
          /\ \E p \in InformedGraphs :
                /\ p.cost_b = MaxCost
                /\ \A s \in States : s < NumStates => p.h[s] = 0
                /\ probs = <<p>>
    /\ Fresh

NextFair ==
    \/ DfsStart
    \/ DfsEnter
    \/ DfsLoop
    \/ DfsFallOff
    \/ DfsResume
    \/ DfsFinish
    \/ AstarStart
    \/ AstarGet
    \/ AstarEmpty
    \/ DriveStart
    \/ DriveLoop
    \/ DriveReport

\* The interpreter keeps executing the cell it has started: a session that
\* can take a step takes one.
SpecFair == InitFair /\ [][NextFair]_vars /\ WF_vars(NextFair)

-----------------------------------------------------------------------------
(* Vocabulary of the properties *)

Finished == 1..Len(results)

ActionsOf(p, s) ==
    { available_actions(p, s)[i] : i \in 1..Len(available_actions(p, s)) }

Successors(p, S) == { do_action(p, s, a) : <<s, a>> \in { <<t, b>> \in S \X {"a", "b", "Left", "Suck", "Right", "Up", "Down"} : b \in ActionsOf(p, t) } }

\* the states reachable from the states of S
RECURSIVE Closure(_, _)
Closure(p, S) ==
    LET T == S \cup Successors(p, S)
    IN  IF T = S THEN S ELSE Closure(p, T)

Reachable(p) == Closure(p, {initial_state(p)})

GoalReachable(p) == \E s \in Reachable(p) : is_goal(p, s)

\* the plan applies action by action from s and ends in a goal state
RECURSIVE Executes(_, _, _)
Executes(p, s, plan) ==
    IF plan = <<>> THEN is_goal(p, s)
    ELSE /\ Head(plan) \in ActionsOf(p, s)
         /\ Executes(p, do_action(p, s, Head(plan)), Tail(plan))

\* the sum of action_cost along a plan applied from s
RECURSIVE PlanCost(_, _, _)
PlanCost(p, s, plan) ==
    IF plan = <<>> THEN 0
    ELSE action_cost(p, s, Head(plan)) + PlanCost(p, do_action(p, s, Head(plan)), Tail(plan))

\* least number of actions from a state of frontier to a goal (-1: none)
RECURSIVE Distance(_, _, _, _)
Distance(p, frontier, seen, d) ==
    IF \E s \in frontier : is_goal(p, s) THEN d
    ELSE IF frontier = {} THEN -1
    ELSE LET nxt == Successors(p, frontier) \ seen
         IN  Distance(p, nxt, seen \cup nxt, d + 1)

MinPlanLen(p) == Distance(p, {initial_state(p)}, {initial_state(p)}, 0)

SetMin(S) == CHOOSE x \in S : \A y \in S : x <= y

\* least cost from every state of S to a goal over at most k more actions
\* than d accounts for (-1: no goal reachable)
RECURSIVE CostToGoal(_, _, _, _)
CostToGoal(p, S, d, k) ==
    IF k = 0 THEN d
    ELSE LET relaxed ==
               [s \in S |->
                  IF is_goal(p, s) THEN 0
                  ELSE LET cands == { action_cost(p, s, a) + d[do_action(p, s, a)] :
                                        a \in { b \in ActionsOf(p, s) :
                                                  d[do_action(p, s, b)] >= 0 } }
                       IN  IF cands = {} THEN -1 ELSE SetMin(cands)]
         IN  CostToGoal(p, S, relaxed, k - 1)

TrueCost(p) ==
    LET S == Reachable(p)
    IN  CostToGoal(p, S, [s \in S |-> IF is_goal(p, s) THEN 0 ELSE -1], Cardinality(S))

Admissible(p) ==
    LET d == TrueCost(p)
    IN  \A s \in Reachable(p) : d[s] >= 0 => heuristic(p, s) <= d[s]

Consistent(p) ==
    \A s \in Reachable(p) :
        /\ is_goal(p, s) => heuristic(p, s) = 0
        /\ \A a \in ActionsOf(p, s) :
              heuristic(p, s) <= action_cost(p, s, a) + heuristic(p, do_action(p, s, a))

-----------------------------------------------------------------------------
(* C1: whenever bfs, dfs or astar returns a plan, the plan applies action  *)
(* by action from initial_state, every action being one of the available   *)
(* actions of the state it is applied to, and ends in a goal state.        *)
C1_PlanReachesGoal ==
    \A i \in Finished :
        results[i].status = "plan" =>
            Executes(probs[i], initial_state(probs[i]), results[i].plan)

C1_Witness ==
    /\ pc = "done"
    /\ probs[1].kind = "graph"
    /\ results[1].status = "plan"
    /\ Len(results[1].plan) = NumStates - 1

(* C2: the plan bfs returns has the least number of actions among all      *)
(* action sequences from initial_state to a goal, the empty sequence       *)
(* included when initial_state is a goal.                                  *)
C2_BfsPlanIsShortest ==
    \A i \in Finished :
        (alg = "bfs" /\ results[i].status = "plan") =>
            Len(results[i].plan) = MinPlanLen(probs[i])

(* C3: with non-negative costs and an admissible, consistent heuristic the *)
(* plan astar returns has the least total cost among all plans to a goal.  *)
C3_AstarPlanIsCheapest ==
    \A i \in Finished :
        (/\ alg = "astar"
         /\ results[i].status = "plan"
         /\ Consistent(probs[i])
         /\ Admissible(probs[i])) =>
            PlanCost(probs[i], initial_state(probs[i]), results[i].plan)
                = TrueCost(probs[i])[initial_state(probs[i])]

(* C4: when no goal state is reachable, every strategy terminates with the *)
(* value None and never with a fault.                                      *)
C4_NoSolutionIsNone ==
    \A i \in Finished :
        ~GoalReachable(probs[i]) => results[i].status = "None"

(* C5: bfs and astar return a plan whenever a goal state is reachable.     *)
C5_ReachableGoalIsFound ==
    \A i \in Finished :
        (alg \in {"bfs", "astar"} /\ GoalReachable(probs[i])) =>
            results[i].status = "plan"

(* C6: from a non-goal initial state without available actions every       *)
(* strategy reports None.                                                  *)
C6_DeadEndIsNone ==
    \A i \in Finished :
        (/\ ~is_goal(probs[i], initial_state(probs[i]))
         /\ available_actions(probs[i], initial_state(probs[i])) = <<>>) =>
            results[i].status = "None"

(* C7: on the two-room vacuum world with the dirty-room-count heuristic    *)
(* astar returns [Suck, Right, Suck] and reports 7 visited states.         *)
C7_VacuumAstar ==
    \A i \in Finished :
        (alg = "astar" /\ probs[i] = VacuumProblem) =>
            results[i] = [status |-> "plan", plan |-> <<"Suck", "Right", "Suck">>,
                          count |-> 7]

C7_Witness ==
    /\ alg = "astar"
    /\ probs[1] = VacuumProblem
    /\ Len(results) >= 1

(* C8: with the heuristic 10 x dirty rooms astar returns the goal-reaching *)
(* plan [Suck, Right, Suck] and reports 5 visited states, fewer than with  *)
(* the dirty-room-count heuristic on the same world.                       *)
C8_VacuumOverestimate ==
    \A i \in Finished :
        (alg = "astar" /\ probs[i] = VacuumProblem2) =>
            /\ results[i] = [status |-> "plan", plan |-> <<"Suck", "Right", "Suck">>,
                             count |-> 5]
            /\ Executes(probs[i], initial_state(probs[i]), results[i].plan)
            /\ \A j \in Finished :
                  probs[j] = VacuumProblem => results[i].count < results[j].count

C8_Witness ==
    /\ pc = "done"
    /\ probs = <<VacuumProblem, VacuumProblem1, VacuumProblem2>>

\* the entry an iteration of astar has taken out of the queue
Extracted == queue \ queue'

\* the action names in the order of their spelling (capitals first)
Alphabet == <<"Down", "Left", "Right", "Suck", "Up", "a", "b">>

Rank(action) == CHOOSE i \in 1..Len(Alphabet) : Alphabet[i] = action

\* r1 comes before r2 in the lexicographic order of action sequences
LexLess(r1, r2) ==
    \/ Len(r1) < Len(r2) /\ SubSeq(r2, 1, Len(r1)) = r1
    \/ \E i \in 1..Min(Len(r1), Len(r2)) :
          /\ SubSeq(r1, 1, i - 1) = SubSeq(r2, 1, i - 1)
          /\ Rank(r1[i]) < Rank(r2[i])

C10_ZeroHeuristicVisitsMost ==
    (/\ pc = "done"
     /\ alg = "astar"
     /\ Len(probs) = 2
     /\ probs[1] = ZeroHeuristic(probs[2])
     /\ HasNonZeroHeuristic(probs[2])
     /\ Admissible(probs[2])) =>
        results[1].count >= results[2].count

-----------------------------------------------------------------------------
\* the state a plan leads to when applied action by action from s
RECURSIVE Apply(_, _, _)
Apply(p, s, plan) ==
    IF plan = <<>> THEN s ELSE Apply(p, do_action(p, s, Head(plan)), Tail(plan))

\* the loop that executes the plan of the current run has been entered
Driving == pc \in {"drive", "reached", "done"} /\ driver.loop # "idle"

(* C11: on the two-room vacuum world (robot in room 0, both rooms dirty)   *)
(* BFSAgent and DFSAgent each compute exactly the plan [Suck, Right, Suck] *)
(* and executing that plan ends in the state (1, (False, False)).          *)
C11_VacuumAgentPlans ==
    (alg \in {"bfs", "dfs"} /\ probs[1] = VacuumProblem) =>
        /\ \A i \in Finished :
              /\ results[i] = Plan(<<"Suck", "Right", "Suck">>)
              /\ Apply(probs[i], initial_state(probs[i]), results[i].plan)
                    = <<1, <<FALSE, FALSE>>>>
        /\ pc \in {"reached", "done"} =>
              /\ driver.loop = "goal"
              /\ driver.state = <<1, <<FALSE, FALSE>>>>
              /\ driver.calls = 3

C11_Witness ==
    /\ alg = "bfs"
    /\ probs[1] = VacuumProblem
    /\ pc = "done"
    /\ Len(results) = 2
    /\ driver.loop = "goal"

(* C12: for every plan produced by BFSAgent, DFSAgent or OracularAgent the *)
(* loop "while not is_goal(state): action = next_action(); state =         *)
(* do_action(state, action)" receives the actions of the plan in order,    *)
(* one per call of next_action, never calls next_action on an exhausted    *)
(* plan, and stops in a goal state after exactly len(plan) calls with the  *)
(* plan fully consumed.                                                    *)
C12_DriverConsumesPlan ==
    (alg \in Agents /\ Driving /\ results[run].status = "plan") =>
        LET plan == results[run].plan
        IN  /\ driver.calls <= Len(plan)
            /\ agent.plan = SubSeq(plan, driver.calls + 1, Len(plan))
            /\ driver.calls > 0 => driver.action = plan[driver.calls]
            /\ driver.loop \notin {"IndexError", "AttributeError"}
            /\ driver.loop = "goal" =>
                  /\ is_goal(prob, driver.state)
                  /\ agent.plan = <<>>
                  /\ driver.calls = Len(plan)

\* the cell that applies actions holds a state of the vacuum world
OnVacuum == driver.loop # "idle" /\ prob.kind = "vacuum"

(* C13: in VacuumProblem the robot index stays within 0..rooms-1 under any *)
(* sequence of Left, Suck and Right applied from the initial state: Right  *)
(* in the rightmost room and Left in the leftmost room return the state    *)
(* unchanged, otherwise Right and Left move the robot by exactly one room, *)
(* and neither changes a dirt flag.                                        *)
C13_RobotStaysInRange ==
    OnVacuum =>
        LET robot == driver.state[1]
            dirty == driver.state[2]
            rooms == Len(dirty)
        IN  /\ robot \in 0..(rooms - 1)
            /\ do_action(prob, driver.state, "Right") =
                  IF robot = rooms - 1 THEN driver.state ELSE <<robot + 1, dirty>>
            /\ do_action(prob, driver.state, "Left") =
                  IF robot = 0 THEN driver.state ELSE <<robot - 1, dirty>>

C13_Witness ==
    /\ pc = "walk"
    /\ OnVacuum
    /\ driver.state[1] = Len(driver.state[2]) - 1
    /\ driver.calls = MaxDepth

(* C14: Suck sets the dirt flag of the robot's room to clean and leaves    *)
(* the robot position and every other flag as they were, also when the     *)
(* room is already clean; no action makes a clean room dirty, so once      *)
(* is_goal holds it holds after every further action.                      *)
C14_SuckOnlyCleans ==
    OnVacuum =>
        LET robot == driver.state[1]
            dirty == driver.state[2]
            sucked == do_action(prob, driver.state, "Suck")
        IN  /\ sucked[1] = robot
            /\ ~sucked[2][robot + 1]
            /\ Len(sucked[2]) = Len(dirty)
            /\ \A i \in 1..Len(dirty) : i # robot + 1 => sucked[2][i] = dirty[i]
            /\ \A a \in ActionsOf(prob, driver.state) :
                  LET after == do_action(prob, driver.state, a)
                  IN  /\ \A i \in 1..Len(dirty) : after[2][i] => dirty[i]
                      /\ is_goal(prob, driver.state) => is_goal(prob, after)

C14_Witness ==
    /\ pc = "walk"
    /\ OnVacuum
    /\ driver.calls = MaxDepth
    /\ ~driver.state[2][driver.state[1] + 1]
    /\ is_goal(prob, driver.state)

-----------------------------------------------------------------------------
(* The 8-puzzle *)

\* a walk over the puzzle that set out from s
PuzzleWalkFrom(s) == pc = "walk" /\ prob.kind = "puzzle" /\ driver.start = s

\* the plan in the notebook's output has 26 actions, each available where
\* it is applied, and leads from initial_state to the goal
RecordedPlanReachesGoal ==
    /\ initial_state(PuzzleProblem) = <<4, <<7, 2, 4, 5, 0, 6, 8, 3, 1>>>>
    /\ Len(BfsPuzzlePlan) = 26
    /\ Executes(PuzzleProblem, initial_state(PuzzleProblem), BfsPuzzlePlan)

\* no sequence of fewer than 26 available actions leads from initial_state
\* of the puzzle to the goal
PuzzleGoalNotBefore26 ==
    (PuzzleWalkFrom(initial_state(prob)) /\ is_goal(prob, driver.state)) =>
        driver.calls >= 26

\* 26 available actions lead from initial_state of the puzzle to the goal
PuzzleGoalAt26 ==
    /\ PuzzleWalkFrom(initial_state(prob))
    /\ driver.state = <<0, <<0, 1, 2, 3, 4, 5, 6, 7, 8>>>>
    /\ driver.calls = 26

-----------------------------------------------------------------------------
(* C16: with unit action cost the VacuumProblem heuristic, the number of   *)
(* dirty rooms, is consistent and admissible: for every state s and every  *)
(* action leading to s', h(s) <= 1 + h(s'); h(s) = 0 exactly in the goal   *)
(* states; and h(s) never exceeds the least number of actions from s to a  *)
(* goal.                                                                   *)
C16_DirtyCountConsistent ==
    OnVacuum =>
        LET s == driver.state
            h == heuristic(VacuumProblem, s)
            least == Distance(VacuumProblem, {s}, {s}, 0)
        IN  /\ \A a \in ActionsOf(VacuumProblem, s) :
                  /\ action_cost(VacuumProblem, s, a) = 1
                  /\ h <= 1 + heuristic(VacuumProblem, do_action(VacuumProblem, s, a))
            /\ (h = 0) <=> is_goal(VacuumProblem, s)
            /\ least >= 0
            /\ h <= least

C16_Witness ==
    /\ pc = "walk"
    /\ OnVacuum
    /\ driver.calls > 0
    /\ heuristic(VacuumProblem, driver.state) = 1
    /\ Distance(VacuumProblem, {driver.state}, {driver.state}, 0) = 2

\* the action that moves the blank back
Inverse(action) ==
    CASE action = "Right" -> "Left"
      [] action = "Left"  -> "Right"
      [] action = "Down"  -> "Up"
      [] action = "Up"    -> "Down"

(* C17: both nonzero 8-puzzle heuristics (PuzzleProblem1: the number of    *)
(* non-blank positions holding the wrong tile; PuzzleProblem2: the sum of  *)
(* the Manhattan distances of the tiles on non-blank positions) are 0 in   *)
(* the goal state and change by at most 1 under a single available move,   *)
(* each move costing 1 and being undone by the opposite move; so for every *)
(* state reachable from the goal neither exceeds the number of moves       *)
(* between the state and the goal.                                         *)
(* The moves out of a state are examined where a walk from the goal sets   *)
(* out and where it has made MaxDepth - 1 or MaxDepth moves.  That is      *)
(* every state the walk reaches: the first state some move out of which    *)
(* could not be undone would be reached by a move that can be, so the walk *)
(* holds it again every two moves later, up to its last two moves, and is  *)
(* examined there; and where every move can be undone every state is held  *)
(* again every two moves later.                                            *)
C17_PuzzleHeuristicsAdmissible ==
    /\ heuristic(PuzzleProblem1, PuzzleGoal) = 0
    /\ heuristic(PuzzleProblem2, PuzzleGoal) = 0
    /\ PuzzleWalkFrom(PuzzleGoal) =>
          /\ heuristic(PuzzleProblem1, driver.state) <= driver.calls
          /\ heuristic(PuzzleProblem2, driver.state) <= driver.calls
    /\ (PuzzleWalkFrom(PuzzleGoal)
          /\ (driver.calls = 0 \/ driver.calls >= MaxDepth - 1)) =>
          LET s == driver.state
              h1 == heuristic(PuzzleProblem1, s)
              h2 == heuristic(PuzzleProblem2, s)
          IN  \A a \in ActionsOf(prob, s) :
                LET t == do_action(prob, s, a)
                IN  /\ action_cost(prob, s, a) = 1
                    /\ Inverse(a) \in ActionsOf(prob, t)
                    /\ do_action(prob, t, Inverse(a)) = s
                    /\ Abs(heuristic(PuzzleProblem1, t) - h1) <= 1
                    /\ Abs(heuristic(PuzzleProblem2, t) - h2) <= 1

C17_Witness ==
    /\ PuzzleWalkFrom(PuzzleGoal)
    /\ driver.state = initial_state(prob)
    /\ driver.calls = 26
    /\ heuristic(PuzzleProblem1, driver.state) = 8
    /\ heuristic(PuzzleProblem2, driver.state) = 18

(* C18: in astar every frontier entry owns its own snapshot of the visited *)
(* set: an iteration of the loop never changes the set carried by an entry *)
(* that stays pending in the frontier, and the count reported when a goal  *)
(* is extracted is the size of the extracted entry's own set.              *)
C18_EntriesOwnSnapshots ==
    [][ /\ (pc = "astar" /\ pc' = "astar") =>
              \A f \in queue \cap queue' :
                  heap'[f.taken_states] = heap[f.taken_states]
        /\ (pc = "astar" /\ Len(results') > Len(results)
                /\ results'[Len(results')].status = "plan") =>
              results'[Len(results')].count = Cardinality(heap[taken_states'])
      ]_vars

(* C19: the number astar reports before returning, with a plan or with     *)
(* None, is the number of distinct states generated during the search: the *)
(* initial state and every successor produced by an expanded entry.        *)
C19_CountIsGeneratedStates ==
    (alg = "astar" /\ pc \in {"start", "done"} /\ results # <<>>) =>
        /\ results[Len(results)].status \in {"plan", "None"}
        /\ results[Len(results)].count = Cardinality(generated)
        /\ initial_state(probs[Len(results)]) \in generated

C19_Witness ==
    /\ alg = "astar"
    /\ pc = "done"
    /\ results[1].status = "None"
    /\ results[1].count >= 2
    /\ Cardinality(generated) >= 2

(* C20: BFS goal-tests the entry it takes from the frontier head, starting *)
(* with the initial state and the empty action sequence: when the initial  *)
(* state is a goal, BFSAgent.bfs returns the empty plan.                   *)
C20_BfsGoalInitialIsEmptyPlan ==
    \A i \in Finished :
        (alg = "bfs" /\ is_goal(probs[i], initial_state(probs[i]))) =>
            (results[i].status = "plan" /\ results[i].plan = <<>>)

(* C21: in bfs the visited set holds the initial state from the start and  *)
(* only grows, and a state is added at its first discovery only: no state, *)
(* the initial state included, is placed on the frontier twice.            *)
C21_BfsFrontierOnce ==
    [][ (alg = "bfs" /\ pc = "bfs") =>
            /\ initial_state(prob) \in heap[taken_states]
            /\ \A i \in 1..Len(visited) : \A j \in 1..Len(visited) :
                  i # j => visited[i].state # visited[j].state
            /\ pc' = "bfs" => heap[taken_states] \subseteq heap'[taken_states]
      ]_vars

(* C22: dfs is incomplete within its depth bound.  On the chain DeepChain  *)
(* with the goal one step behind the state at depth 45, a plan of 2        *)
(* actions (b, a) reaches the goal, but dfs returns None: the state at     *)
(* depth 45 was first reached along the chain, where the branch failed at  *)
(* the depth cut, and it stays in the shared set, so action b of the       *)
(* initial state is skipped.                                               *)
C22_DfsIncompleteWithinBound ==
    \A i \in Finished :
        (alg = "dfs" /\ probs[i] = DeepChain(DepthLimit + 2)) =>
            /\ Executes(probs[i], initial_state(probs[i]), <<"b", "a">>)
            /\ MinPlanLen(probs[i]) = 2
            /\ 2 <= DepthLimit
            /\ results[i].status = "None"
            /\ Len(entered) = DepthLimit + 1
            /\ entered[Len(entered)] = do_action(probs[i], initial_state(probs[i]), "b")

C22_Witness ==
    /\ alg = "dfs"
    /\ probs = <<DeepChain(DepthLimit + 2)>>
    /\ pc = "done"
    /\ results[1].status = "None"

(* C23: in one dfs run the visited set is a single set shared by all       *)
(* branches; it only grows and is not rolled back when a call returns, and *)
(* a state that has been marked visited is never recursed into a second    *)
(* time, whatever path leads to it later.                                  *)
C23_DfsExpandsOnce ==
    [][ (alg = "dfs" /\ pc = "dfs") =>
            /\ Len(heap) = 1 /\ taken_states = 1
            /\ pc' = "dfs" => heap[taken_states] \subseteq heap'[taken_states]
            /\ \A i \in 1..Len(entered) : \A j \in 1..Len(entered) :
                  i # j => entered[i] # entered[j]
            /\ heap[taken_states] = { entered[i] : i \in 1..Len(entered) }
            /\ \A i \in 1..Len(stack) : stack[i].initial_state \in heap[taken_states]
      ]_vars

\* a call that has returned left its state in the set, and the state is met
\* again from another state
C23_Witness ==
    /\ alg = "dfs" /\ pc = "dfs" /\ ~ret.pending /\ stack # <<>>
    /\ Top.k \in 1..Len(available_actions(prob, Top.initial_state))
    /\ LET later_state == do_action(prob, Top.initial_state,
                                    available_actions(prob, Top.initial_state)[Top.k])
       IN  /\ later_state \in heap[taken_states]
           /\ \A i \in 1..Len(stack) : stack[i].initial_state # later_state

(* C24: dfs never follows an action sequence longer than 45 actions: the   *)
(* recursion is at most 45 levels below the initial call, every returned   *)
(* plan has at most 45 actions, a call at the bound recurses no further    *)
(* and returns None to its caller without a fault, and every dfs run       *)
(* comes to an end.                                                        *)
C24_DfsDepthBounded ==
    /\ [](alg = "dfs" =>
            /\ Len(stack) <= DepthLimit + 1
            /\ \A i \in 1..Len(stack) : Len(stack[i].steps) = i - 1
            /\ (ret.pending /\ ~ret.isNone) => Len(ret.route) <= DepthLimit
            /\ (pc = "dfs" /\ ret.pending /\ Len(stack) = DepthLimit + 1) =>
                  (ret.isNone \/ Len(ret.route) = DepthLimit)
            /\ \A i \in Finished :
                  /\ results[i].status \in {"plan", "None"}
                  /\ Len(results[i].plan) <= DepthLimit)
    /\ (alg = "dfs" /\ pc = "dfs") ~> (pc # "dfs")

\* a call with 45 steps has failed and its caller is about to go on
C24_Witness ==
    /\ alg = "dfs" /\ pc = "dfs"
    /\ Len(stack) = DepthLimit
    /\ ret.pending /\ ret.isNone

(* C25: with any non-negative heuristic, admissible or not, consistent or  *)
(* not, astar comes to an end without a fault and every plan it returns    *)
(* reaches a goal; with the vacuum heuristic "number of clean rooms" it    *)
(* returns [Suck, Right, Suck] and reports 8 visited states.               *)
C25_AstarAnyHeuristic ==
    /\ [](alg = "astar" =>
            \A i \in Finished :
                /\ \A s \in Reachable(probs[i]) : heuristic(probs[i], s) >= 0
                /\ results[i].status \in {"plan", "None"}
                /\ results[i].status = "plan" =>
                      is_goal(probs[i], Apply(probs[i], initial_state(probs[i]),
                                              results[i].plan))
                /\ probs[i] = VacuumProblem1 =>
                      results[i] = [status |-> "plan",
                                    plan |-> <<"Suck", "Right", "Suck">>,
                                    count |-> 8])
    /\ (alg = "astar" /\ pc = "astar") ~> (pc # "astar")

\* a run with a heuristic that is neither admissible nor consistent
C25_Witness ==
    /\ alg = "astar"
    /\ results # <<>>
    /\ probs[1] = VacuumProblem1
    /\ ~Admissible(VacuumProblem1)
    /\ ~Consistent(VacuumProblem1)

(* C26: every iteration of astar takes out of the frontier an entry of     *)
(* least estimated cost, among the entries of that cost the one with the   *)
(* lexicographically smallest action sequence, and tests only that entry   *)
(* against the goal; the pending entries have pairwise different action    *)
(* sequences, so cost and action sequence decide every comparison.         *)
C26_AstarExtractsMinimum ==
    [][ (pc = "astar" /\ queue # {}) =>
            /\ \A e \in queue : \A f \in queue : e # f => e.route # f.route
            /\ Cardinality(Extracted) = 1
            /\ \A e \in Extracted :
                  /\ \A f \in queue \ {e} :
                        \/ e.cost < f.cost
                        \/ e.cost = f.cost /\ LexLess(e.route, f.route)
                  /\ is_goal(prob, e.state) <=> Len(results') = Len(results) + 1
                  /\ is_goal(prob, e.state) =>
                        /\ results'[Len(results')].status = "plan"
                        /\ results'[Len(results')].plan = e.route
      ]_vars

\* two pending entries of the same least cost
C26_Witness ==
    /\ pc = "astar"
    /\ \E e \in queue : \E f \in queue :
          /\ e # f
          /\ e.cost = f.cost
          /\ \A g \in queue : e.cost <= g.cost
    /\ \E e \in queue : is_goal(prob, e.state) /\ e \notin MinEntries(prob, queue)

\* the states a plan passes through when applied from s, s included
RECURSIVE Path(_, _, _)
Path(p, s, plan) ==
    IF plan = <<>> THEN <<s>>
    ELSE <<s>> \o Path(p, do_action(p, s, Head(plan)), Tail(plan))

NoStateTwice(path) ==
    \A i \in 1..Len(path) : \A j \in 1..Len(path) : i # j => path[i] # path[j]

(* C27: for every entry placed in the astar frontier the action sequence   *)
(* leads from initial_state to the entry's state, the accumulated cost is  *)
(* the sum of action_cost along the sequence (0 for the initial entry),    *)
(* and the priority is accumulated cost + heuristic(entry's state).        *)
C27_AstarEntriesConsistent ==
    (alg = "astar" /\ pc = "astar") =>
        \A e \in queue :
            /\ \A path \in {Path(prob, initial_state(prob), e.route)} :
                  /\ \A k \in 1..Len(e.route) : e.route[k] \in ActionsOf(prob, path[k])
                  /\ path[Len(path)] = e.state
            /\ e.action_costs = PlanCost(prob, initial_state(prob), e.route)
            /\ e.route = <<>> => e.action_costs = 0
            /\ e.cost = e.action_costs + heuristic(prob, e.state)

\* an entry reached over an action that costs more than 1, with a heuristic
\* value that counts
C27_Witness ==
    /\ alg = "astar" /\ pc = "astar"
    /\ \E e \in queue :
          /\ e.route # <<>>
          /\ e.action_costs > Len(e.route)
          /\ heuristic(prob, e.state) > 0
          /\ e.cost > e.action_costs

(* C28: do_action of the concrete problems raises an exception for every   *)
(* action that is not in available_actions of the state it is called      *)
(* with; PuzzleProblem.do_action returns no state for a move that is not   *)
(* offered at the blank's position.                                        *)
C28_DoActionRejects ==
    (alg = "call" /\ pc = "done"
        /\ driver.action \notin ActionsOf(prob, driver.start)) =>
            driver.loop \in {"Exception", "IndexError"}

(* C29: in one astar run every state is put on the frontier at most once,  *)
(* whichever branch generates it, so the number of insertions and of loop  *)
(* iterations is bounded by the number of reachable states.  (The          *)
(* sequence of inserted states only grows during a run, so it is compared  *)
(* with the reachable states when the run has returned.)                   *)
C29_AstarInsertsOnce ==
    /\ (alg = "astar" /\ pc = "astar") =>
            /\ \A i \in 1..Len(entered) : \A j \in 1..Len(entered) :
                  i # j => entered[i] # entered[j]
            /\ \A e \in queue : \E i \in 1..Len(entered) : entered[i] = e.state
            /\ Cardinality(queue) <= Len(entered)
    /\ (alg = "astar" /\ pc # "astar" /\ results # <<>>) =>
            \A R \in {Reachable(probs[Len(results)])} :
                /\ \A i \in 1..Len(entered) : entered[i] \in R
                /\ \A i \in 1..Len(entered) : \A j \in 1..Len(entered) :
                      i # j => entered[i] # entered[j]
                /\ Len(entered) <= Cardinality(R)

\* a state that is on the frontier is generated again by another branch
C29_Witness ==
    /\ alg = "astar" /\ pc = "astar"
    /\ \E e \in queue : \E f \in queue :
          /\ e # f
          /\ \E a \in ActionsOf(prob, e.state) : do_action(prob, e.state, a) = f.state
          /\ Len(f.route) <= Len(e.route)
          /\ e.state # f.state

(* C30: executing a plan returned by bfs, dfs or astar from initial_state  *)
(* passes through no state twice (initial, intermediate and final states). *)
C30_PlanVisitsNoStateTwice ==
    \A i \in Finished :
        (alg \in {"bfs", "dfs", "astar"} /\ results[i].status = "plan") =>
            NoStateTwice(Path(probs[i], initial_state(probs[i]), results[i].plan))

\* the same without the plans of bfs
C30_ExceptBfs ==
    \A i \in Finished :
        (alg \in {"dfs", "astar"} /\ results[i].status = "plan") =>
            NoStateTwice(Path(probs[i], initial_state(probs[i]), results[i].plan))

\* the same for bfs from an initial state that is not a goal
C30_BfsNonGoalStart ==
    \A i \in Finished :
        (alg = "bfs" /\ results[i].status = "plan"
            /\ ~is_goal(probs[i], initial_state(probs[i]))) =>
            NoStateTwice(Path(probs[i], initial_state(probs[i]), results[i].plan))

\* positions i and j are neighbours in a row or in a column of the 3x3 grid
Adjacent(i, j) ==
    \/ (i \div 3) = (j \div 3) /\ Abs((i % 3) - (j % 3)) = 1
    \/ (i % 3) = (j % 3) /\ Abs((i \div 3) - (j \div 3)) = 1

\* the board is a permutation of 0..8 and position is where tile 0 stands
WellFormed(state) ==
    /\ state[1] \in 0..8
    /\ Len(state[2]) = 9
    /\ state[2][state[1] + 1] = 0
    /\ { state[2][i] : i \in 1..9 } = 0..8

\* the move from state s to state t swaps the blank with the tile on an
\* adjacent square and leaves the other seven tiles in place
BlankMove(s, t) ==
    /\ Adjacent(s[1], t[1])
    /\ t[2][t[1] + 1] = 0
    /\ t[2][s[1] + 1] = s[2][t[1] + 1]
    /\ t[2][s[1] + 1] # 0
    /\ \A i \in 0..8 : i \notin {s[1], t[1]} => t[2][i + 1] = s[2][i + 1]

(* C31: every puzzle state reachable from the initial state by available   *)
(* actions is well-formed: the board is a permutation of 0..8, the first   *)
(* component is the index of the blank, every offered move swaps the blank *)
(* with one tile on an adjacent square of the 3x3 grid and leaves the      *)
(* other seven tiles in place, and no offered move indexes outside 0..8.   *)
C31_PuzzleStatesWellFormed ==
    (pc = "roam" /\ prob.kind = "puzzle") =>
        /\ WellFormed(driver.state)
        /\ available_actions(prob, driver.state) # <<>>
        /\ \A a \in ActionsOf(prob, driver.state) :
              /\ PuzzleOther(driver.state[1], a) \in 0..8
              /\ do_action(prob, driver.state, a)[1] = PuzzleOther(driver.state[1], a)
              /\ BlankMove(driver.state, do_action(prob, driver.state, a))
              /\ WellFormed(do_action(prob, driver.state, a))

\* the goal state, 26 moves from the initial state, with the blank in a
\* corner where two moves are offered
C31_Witness ==
    /\ pc = "roam"
    /\ driver.state = PuzzleGoal
    /\ driver.start = initial_state(PuzzleProblem)
    /\ Len(available_actions(prob, driver.state)) = 2

====
